---- MODULE Spec2Model ----
(***************************************************************************)
(* tracker-knex: an Express/Knex personal finance tracker.                 *)
(*                                                                         *)
(* The model is the relational store (tables auth_users, category,         *)
(* transaction with their foreign keys) and one action per HTTP handler of *)
(* src/unnamed/part_001 (routes/auth_users), src/src/routes/category and   *)
(* src/src/routes/transaction.  Every request leaves its description in    *)
(* req and its answer in resp, so that properties of single requests are   *)
(* properties of single steps.                                             *)
(***************************************************************************)
EXTENDS Integers, Sequences, FiniteSets, TLC

\* ------------------------------------------------------------------ bounds
\* uuidv4() never repeats: ids are drawn from per-table counters, capped here.
MaxUsers == 2
MaxCategories == 2
MaxTransactions == 1
\* signup requests that passed the email check and have not inserted yet
MaxInflight == 2
\* rows of each table in the specification of the list routes
MaxListRows == 3

\* ------------------------------------------------------------------ values
Emails == {"a@x.com", "b@x.com"}
Passwords == {"p1", "p2"}
UserNames == {"ann"}
\* category names and transaction descriptions are strings over this alphabet
CategoryNames == {<<"a">>, <<"a", "b">>}
CategoryTypes == {"income", "expense"}

\* an optional value (a field that may be undefined): <<>> or <<v>>
Absent == <<>>
Some(v) == <<v>>
IsPresent(o) == Len(o) = 1

UserIds == 1 .. MaxUsers
CategoryIds == 1 .. MaxCategories
TransactionIds == 1 .. MaxTransactions

\* ------------------------------------------------------- credential store
\* bcrypt.hash(password, 10): a salted one-way hash; the salt does not change
\* what compare answers and is left out.
BcryptHash(p) == [kind |-> "bcrypt", text |-> p]
\* a string stored as it was given
Plain(p) == [kind |-> "plain", text |-> p]
\* bcrypt.compare(password, stored): false for a stored value that is no hash
BcryptCompare(p, stored) == stored.kind = "bcrypt" /\ stored.text = p

\* --------------------------------------------------------------- variables
VARIABLES
    auth_users,     \* rows of table auth_users
    category,       \* rows of table category
    transaction,    \* rows of table transaction
    txSchema,       \* the deployed columns of table transaction
    nextUserId, nextCategoryId, nextTransactionId,  \* uuidv4()
    now,            \* the store clock
    issued,         \* the identity claims jwt.sign has signed so far
    inflight,       \* signups between their email check and their insert
    req,            \* the request handled last
    resp,           \* its response
    before          \* the tables as that request found them

vars == <<auth_users, category, transaction, txSchema, nextUserId, nextCategoryId,
          nextTransactionId, now, issued, inflight, req, resp, before>>

Tables == [users |-> auth_users, cats |-> category, txs |-> transaction]

\* ------------------------------------------------------------ the store
\* auth_users(id, name, email, password, active, created_at, updated_at):
\* the primary key is the only uniqueness the table declares.
AuthUsersInsertOk(users, row) == \A u \in users : u.id # row.id

\* category.auth_user_id references auth_users(id)
CategoryFkOk(users, row) == \E u \in users : u.id = row.auth_user_id

\* transaction.category_id references category(id),
\* transaction.auth_user_id references auth_users(id)
TransactionFkOk(users, cats, row) ==
    /\ \E c \in cats : c.id = row.category_id
    /\ \E u \in users : u.id = row.auth_user_id

\* as CascadeCategoryDelete, with no ON DELETE CASCADE
CascadeCategoryDeleteNone(txs, gone) == txs

\* ON DELETE CASCADE of transaction.category_id: the transactions that stay
\* when the categories gone are deleted
CascadeCategoryDelete(txs, gone) ==
    {t \in txs : \A c \in gone : t.category_id # c.id}

\* ON DELETE CASCADE of category.auth_user_id: the categories that stay when
\* the users gone are deleted
CascadeUserDeleteCategories(cats, gone) ==
    {c \in cats : \A u \in gone : c.auth_user_id # u.id}

\* ON DELETE CASCADE of transaction.auth_user_id
CascadeUserDeleteTransactions(txs, gone) ==
    {t \in txs : \A u \in gone : t.auth_user_id # u.id}

\* DELETE FROM auth_users of the rows gone, with every cascade it starts
DeleteUsers(users, cats, txs, gone) ==
    LET catsLeft == CascadeUserDeleteCategories(cats, gone)
    IN  [users |-> users \ gone,
         cats  |-> catsLeft,
         txs   |-> CascadeCategoryDelete(
                       CascadeUserDeleteTransactions(txs, gone), cats \ catsLeft)]

\* The columns of table transaction.  "migration" is the table the migration
\* under src/migrations creates; "handlers" is the table the transaction
\* handlers write to (columns amount, description, no title, no type).
TxSchemas == {"migration", "handlers"}
TransactionColumns(schema) ==
    IF schema = "migration"
    THEN {"id", "title", "amount", "type", "category_id", "auth_user_id",
          "created_at", "updated_at"}
    ELSE {"id", "amount", "description", "category_id", "auth_user_id",
          "created_at", "updated_at"}
\* the NOT NULL columns that have no default
TransactionRequired(schema) ==
    IF schema = "migration"
    THEN {"id", "title", "amount", "type", "category_id", "auth_user_id"}
    ELSE {"id", "amount", "description", "category_id", "auth_user_id"}
CategoryColumns ==
    {"id", "name", "type", "auth_user_id", "created_at", "updated_at"}

\* whether the store accepts a statement that writes the columns cols
WritesOk(schema, cols) == cols \subseteq TransactionColumns(schema)
InsertColumnsOk(schema, cols) ==
    /\ WritesOk(schema, cols)
    /\ TransactionRequired(schema) \subseteq cols

\* ------------------------------------------------------------ responses
Response(status, kind, rows, error) ==
    [status |-> status, kind |-> kind, rows |-> rows, error |-> error,
     message |-> "", token |-> Absent]
Json(status, rows) == Response(status, "rows", rows, "")
\* res.json(x[0]): the row, or nothing at all when x is empty
JsonFirst(status, rows) ==
    IF rows = <<>> THEN Response(status, "undefined", <<>>, "")
    ELSE Response(status, "row", <<rows[1]>>, "")
Message(text) == [Response(200, "message", <<>>, "") EXCEPT !.message = text]
Failure(status, text) == Response(status, "error", <<>>, text)
InternalError == Failure(500, "Internal server error")
Unauthorized == Failure(401, "Unauthorized")
Forbidden == Failure(403, "Unauthorized access")
TokenResponse(claims) ==
    [Response(200, "token", <<>>, "") EXCEPT !.token = Some(claims)]

\* returning(["id", "name", "email", "active"])
PublicUser(u) ==
    [id |-> u.id, name |-> u.name, email |-> u.email, active |-> u.active]

\* all orders a set of rows can come back in
RECURSIVE Orders(_)
Orders(S) ==
    IF S = {} THEN {<<>>}
    ELSE UNION {{<<x>> \o s : s \in Orders(S \ {x})} : x \in S}

\* -------------------------------------------------- authorization gate
\* the bearer a request carries: none, a malformed or wrongly signed one, or
\* claims this server signed, within or past their expiry
NoBearer == [kind |-> "none", claims |-> Absent]
InvalidBearer == [kind |-> "invalid", claims |-> Absent]
Bearers ==
    {NoBearer, InvalidBearer}
      \cup {[kind |-> k, claims |-> Some(c)] : k \in {"valid", "expired"}, c \in issued}

\* middleware/verifyToken.js
VerifyToken(b) ==
    IF b.kind = "valid"
    THEN [pass |-> TRUE, user |-> b.claims]
    ELSE [pass |-> FALSE, user |-> Absent]

\* the routes registered with verifyToken before their handler
ProtectedUserRoutes ==
    {"GET /auth_users", "GET /auth_users/:id", "PUT /auth_users/:id",
     "DELETE /auth_users/:id"}
ProtectedCategoryRoutes ==
    {"GET /category", "POST /category", "PUT /category/:id", "DELETE /category/:id"}
\* as ProtectedTransactionRoutes, with DELETE registered without verifyToken
ProtectedTransactionRoutesButDelete ==
    {"POST /transaction", "GET /transaction", "GET /transaction/:id",
     "PUT /transaction/:id"}
ProtectedTransactionRoutes ==
    {"POST /transaction", "GET /transaction", "GET /transaction/:id",
     "PUT /transaction/:id", "DELETE /transaction/:id"}
PublicRoutes == {"POST /auth_users/signup", "POST /auth_users/signin"}

Protected(route) ==
    route \in ProtectedUserRoutes \cup ProtectedCategoryRoutes
                \cup ProtectedTransactionRoutes

\* what reaches the handler: req.user, when verifyToken ran and set it
Authenticate(route, b) ==
    IF Protected(route) THEN VerifyToken(b) ELSE [pass |-> TRUE, user |-> Absent]

\* the request as the handler sees it; handled says the handler ran
Request(route, b, id, args) ==
    LET auth == Authenticate(route, b)
    IN  [route |-> route, bearer |-> b, user |-> auth.user, id |-> id,
         args |-> args, handled |-> auth.pass]

\* ---------------------------------------------------------------- Init
NoRequest ==
    [route |-> "none", bearer |-> NoBearer, user |-> Absent, id |-> Absent,
     args |-> [none |-> TRUE], handled |-> FALSE]

Init ==
    /\ auth_users = {}
    /\ category = {}
    /\ transaction = {}
    /\ txSchema \in TxSchemas
    /\ nextUserId = 1
    /\ nextCategoryId = 1
    /\ nextTransactionId = 1
    /\ now = 0
    /\ issued = {}
    /\ inflight = <<>>
    /\ req = NoRequest
    /\ resp = Response(0, "none", <<>>, "")
    /\ before = Tables

\* a request that reads the store and answers
Answer(q, r) ==
    /\ req' = q
    /\ resp' = r
    /\ before' = Tables
    /\ UNCHANGED <<auth_users, category, transaction, txSchema, nextUserId,
                   nextCategoryId, nextTransactionId, now, issued, inflight>>

\* ------------------------------------------------- routes/auth_users
\* POST /auth_users/signup, up to its first answer: the email check
EmailInUse(users, email) == \E u \in users : u.email = email

SignupCheck(body) ==
    LET q == Request("POST /auth_users/signup", NoBearer, Absent, body)
    IN  IF EmailInUse(auth_users, body.email)
        THEN Answer(q, Failure(400, "Email already in use"))
        ELSE /\ nextUserId + Len(inflight) <= MaxUsers
             /\ Len(inflight) < MaxInflight
             /\ inflight' = Append(inflight, body)
             /\ req' = q
             /\ resp' = Response(0, "pending", <<>>, "")
             /\ before' = Tables
             /\ UNCHANGED <<auth_users, category, transaction, txSchema, nextUserId,
                            nextCategoryId, nextTransactionId, now, issued>>

\* the row signup inserts
SignupRow(id, body, time) ==
    [id |-> id, name |-> body.name, email |-> body.email,
     password |-> BcryptHash(body.password), active |-> TRUE,
     created_at |-> time, updated_at |-> time]

\* POST /auth_users/signup, after the check: hash, insert, answer 201
SignupInsert(i) ==
    LET body == inflight[i]
        row == SignupRow(nextUserId, body, now)
        q == Request("POST /auth_users/signup", NoBearer, Absent, body)
    IN  /\ inflight' = SubSeq(inflight, 1, i - 1) \o SubSeq(inflight, i + 1, Len(inflight))
        /\ nextUserId' = nextUserId + 1
        /\ req' = q
        /\ before' = Tables
        /\ IF AuthUsersInsertOk(auth_users, row)
           THEN /\ auth_users' = auth_users \cup {row}
                /\ resp' = JsonFirst(201, <<PublicUser(row)>>)
           ELSE /\ auth_users' = auth_users
                /\ resp' = InternalError
        /\ UNCHANGED <<category, transaction, txSchema, nextCategoryId,
                       nextTransactionId, now, issued>>

\* as SigninResponses, with an answer of its own for an unknown email
SigninResponsesUserNotFound(users, body) ==
    LET found == {u \in users : u.email = body.email}
    IN  IF found = {}
        THEN {Failure(404, "User not found")}
        ELSE {IF BcryptCompare(body.password, u.password)
              THEN TokenResponse([id |-> u.id, email |-> u.email])
              ELSE Failure(401, "Invalid email or password") : u \in found}

\* POST /auth_users/signin: the answers the handler can give
SigninResponses(users, body) ==
    LET found == {u \in users : u.email = body.email}
    IN  IF found = {}
        THEN {Failure(401, "Invalid email or password")}
        ELSE {IF BcryptCompare(body.password, u.password)
              THEN TokenResponse([id |-> u.id, email |-> u.email])
              ELSE Failure(401, "Invalid email or password") : u \in found}

Signin(body) ==
    \E r \in SigninResponses(auth_users, body) :
        /\ req' = Request("POST /auth_users/signin", NoBearer, Absent, body)
        /\ before' = Tables
        /\ resp' = r
        /\ issued' = IF IsPresent(r.token) THEN issued \cup {r.token[1]} ELSE issued
        /\ UNCHANGED <<auth_users, category, transaction, txSchema, nextUserId,
                       nextCategoryId, nextTransactionId, now, inflight>>

\* GET /auth_users
ListUsersResponses(users) == {Json(200, s) : s \in Orders({PublicUser(u) : u \in users})}

ListUsers(b) ==
    LET q == Request("GET /auth_users", b, Absent, [none |-> TRUE])
    IN  IF ~q.handled THEN Answer(q, Unauthorized)
        ELSE \E r \in ListUsersResponses(auth_users) : Answer(q, r)

\* as SameIdentity, with the check left out
SameIdentityAlways(user, id) == TRUE

\* the check both sides of which are strings: req.user.id !== id
SameIdentity(user, id) == user.id = id

\* GET /auth_users/:id
GetUserResponse(users, user, id) ==
    IF ~IsPresent(user) THEN InternalError
    ELSE IF ~SameIdentity(user[1], id) THEN Forbidden
    ELSE LET found == {u \in users : u.id = id}
         IN  IF found = {} THEN Failure(404, "User not found")
             ELSE JsonFirst(200, <<CHOOSE u \in found : TRUE>>)

GetUser(b, id) ==
    LET q == Request("GET /auth_users/:id", b, Some(id), [none |-> TRUE])
    IN  IF ~q.handled THEN Answer(q, Unauthorized)
        ELSE Answer(q, GetUserResponse(auth_users, q.user, id))

\* update({name, email, password, updated_at}): undefined fields are left out
UpdatedUser(u, body, time) ==
    [u EXCEPT !.name = IF IsPresent(body.name) THEN body.name[1] ELSE @,
              !.email = IF IsPresent(body.email) THEN body.email[1] ELSE @,
              !.password = IF IsPresent(body.password) THEN Plain(body.password[1]) ELSE @,
              !.updated_at = time]

\* PUT /auth_users/:id: the response and the table after it
UpdateUserResult(users, user, id, body, time) ==
    IF ~IsPresent(user) THEN [resp |-> InternalError, users |-> users]
    ELSE IF ~SameIdentity(user[1], id) THEN [resp |-> Forbidden, users |-> users]
    ELSE LET hit == {u \in users : u.id = id}
             new == {UpdatedUser(u, body, time) : u \in hit}
         IN  [resp |-> IF new = {} THEN JsonFirst(200, <<>>)
                       ELSE JsonFirst(200, <<PublicUser(CHOOSE u \in new : TRUE)>>),
              users |-> (users \ hit) \cup new]

UpdateUser(b, id, body) ==
    LET q == Request("PUT /auth_users/:id", b, Some(id), body)
    IN  IF ~q.handled THEN Answer(q, Unauthorized)
        ELSE LET res == UpdateUserResult(auth_users, q.user, id, body, now)
             IN  /\ req' = q
                 /\ before' = Tables
                 /\ resp' = res.resp
                 /\ auth_users' = res.users
                 /\ UNCHANGED <<category, transaction, txSchema, nextUserId,
                                nextCategoryId, nextTransactionId, now, issued, inflight>>

\* DELETE /auth_users/:id: the response and the tables after it
DeleteUserResult(users, cats, txs, user, id) ==
    LET same == [users |-> users, cats |-> cats, txs |-> txs]
    IN  IF ~IsPresent(user) THEN [resp |-> InternalError, db |-> same]
        ELSE IF ~SameIdentity(user[1], id) THEN [resp |-> Forbidden, db |-> same]
        ELSE [resp |-> Message("User deleted"),
              db |-> DeleteUsers(users, cats, txs, {u \in users : u.id = id})]

DeleteUser(b, id) ==
    LET q == Request("DELETE /auth_users/:id", b, Some(id), [none |-> TRUE])
    IN  IF ~q.handled THEN Answer(q, Unauthorized)
        ELSE LET res == DeleteUserResult(auth_users, category, transaction, q.user, id)
             IN  /\ req' = q
                 /\ before' = Tables
                 /\ resp' = res.resp
                 /\ auth_users' = res.db.users
                 /\ category' = res.db.cats
                 /\ transaction' = res.db.txs
                 /\ UNCHANGED <<txSchema, nextUserId, nextCategoryId,
                                nextTransactionId, now, issued, inflight>>

\* ---------------------------------------------- query-string handling
\* Strings the handlers take apart are sequences of one-character strings.
DigitChars == <<"0", "1", "2", "3", "4", "5", "6", "7", "8", "9">>
IsDigit(c) == \E i \in 1 .. Len(DigitChars) : DigitChars[i] = c
DigitValue(c) == (CHOOSE i \in 1 .. Len(DigitChars) : DigitChars[i] = c) - 1

\* the value of the longest prefix of digits of s, after the digits read (acc)
RECURSIVE ParseDigits(_, _)
ParseDigits(s, acc) ==
    IF s = <<>> \/ ~IsDigit(Head(s)) THEN acc
    ELSE ParseDigits(Tail(s), 10 * acc + DigitValue(Head(s)))

\* parseInt(x): Absent is NaN (x undefined, or no digit where a number starts)
ParseInt(x) ==
    IF ~IsPresent(x) THEN Absent
    ELSE LET s == x[1]
             neg == s # <<>> /\ Head(s) = "-"
             t == IF neg THEN Tail(s) ELSE s
         IN  IF t = <<>> \/ ~IsDigit(Head(t)) THEN Absent
             ELSE Some(IF neg THEN 0 - ParseDigits(t, 0) ELSE ParseDigits(t, 0))

\* parseInt(x) || dflt: NaN and 0 are falsy
ParseIntOr(x, dflt) ==
    LET n == ParseInt(x)
    IN  IF ~IsPresent(n) \/ n[1] = 0 THEN dflt ELSE n[1]

DefaultPage == 1
DefaultPageSize == 10
PageOf(query) == ParseIntOr(query.page, DefaultPage)
PageSizeOf(query) == ParseIntOr(query.pageSize, DefaultPageSize)
\* as OffsetOf, counting pages from 0
OffsetOfPageZero(query) == PageOf(query) * PageSizeOf(query)
OffsetOf(query) == (PageOf(query) - 1) * PageSizeOf(query)

\* req.query.sortBy || "created_at": undefined and "" are falsy
SortByOf(query) ==
    IF IsPresent(query.sortBy) /\ query.sortBy[1] # "" THEN query.sortBy[1]
    ELSE "created_at"
\* req.query.order === "desc" ? "desc" : "asc"
OrderOf(query) ==
    IF IsPresent(query.order) /\ query.order[1] = "desc" THEN "desc" ELSE "asc"
\* if (filter): undefined and "" are falsy
HasFilter(query) == IsPresent(query.filter) /\ query.filter[1] # <<>>

\* s LIKE p, with % any run of characters and _ any one character
RECURSIVE LikeMatch(_, _)
LikeMatch(p, s) ==
    IF p = <<>> THEN s = <<>>
    ELSE IF Head(p) = "%"
         THEN LikeMatch(Tail(p), s) \/ (s # <<>> /\ LikeMatch(p, Tail(s)))
    ELSE /\ s # <<>>
         /\ (Head(p) = "_" \/ Head(p) = Head(s))
         /\ LikeMatch(Tail(p), Tail(s))

\* `%${filter}%`
LikePattern(f) == <<"%">> \o f \o <<"%">>

\* ------------------------------------------------------------ ORDER BY
Alphabet == <<"a", "b", "c">>
CharCode(c) == CHOOSE i \in 1 .. Len(Alphabet) : Alphabet[i] = c
TypeRank(t) == IF t = "income" THEN 1 ELSE 2

\* a column's value as a sequence of numbers that compare as the values do
SortKey(row, col) ==
    IF col \in {"name", "description"} THEN [i \in 1 .. Len(row[col]) |-> CharCode(row[col][i])]
    ELSE IF col = "type" THEN <<TypeRank(row[col])>>
    ELSE <<row[col]>>

RECURSIVE LexLeq(_, _)
LexLeq(a, b) ==
    IF a = <<>> THEN TRUE
    ELSE IF b = <<>> THEN FALSE
    ELSE IF Head(a) # Head(b) THEN Head(a) < Head(b)
    ELSE LexLeq(Tail(a), Tail(b))

\* x may come before y under ORDER BY col order
MayPrecede(x, y, col, order) ==
    IF order = "desc" THEN LexLeq(SortKey(y, col), SortKey(x, col))
    ELSE LexLeq(SortKey(x, col), SortKey(y, col))

\* the orders ORDER BY col order can return rows in (ties fall either way)
RECURSIVE SortedOrders(_, _, _)
SortedOrders(rows, col, order) ==
    IF rows = {} THEN {<<>>}
    ELSE UNION {{<<x>> \o s : s \in SortedOrders(rows \ {x}, col, order)} :
                  x \in {x \in rows : \A y \in rows : MayPrecede(x, y, col, order)}}

\* LIMIT limit OFFSET offset
Page(s, limit, offset) ==
    SubSeq(s, offset + 1, IF offset + limit < Len(s) THEN offset + limit ELSE Len(s))

\* query.orderBy(sortBy, order).limit(pageSize).offset(offset) on the rows
\* selected: the answers of the handler
PagedResponses(rows, columns, query) ==
    IF SortByOf(query) \notin columns THEN {InternalError}
    ELSE IF OffsetOf(query) < 0 \/ PageSizeOf(query) < 0 THEN {InternalError}
    ELSE {Json(200, Page(s, PageSizeOf(query), OffsetOf(query))) :
            s \in SortedOrders(rows, SortByOf(query), OrderOf(query))}

\* --------------------------------------------------- routes/category
OwnedBy(rows, userId) == {r \in rows : r.auth_user_id = userId}

\* GET /category
ListCategoriesResponses(cats, user, query) ==
    IF ~IsPresent(user) THEN {InternalError}
    ELSE LET mine == OwnedBy(cats, user[1].id)
             sel == IF HasFilter(query)
                    THEN {c \in mine : LikeMatch(LikePattern(query.filter[1]), c.name)}
                    ELSE mine
         IN  PagedResponses(sel, CategoryColumns, query)

ListCategories(b, query) ==
    LET q == Request("GET /category", b, Absent, query)
    IN  IF ~q.handled THEN Answer(q, Unauthorized)
        ELSE \E r \in ListCategoriesResponses(category, q.user, query) : Answer(q, r)

CategoryRow(id, body, userId, time) ==
    [id |-> id, name |-> body.name, type |-> body.type, auth_user_id |-> userId,
     created_at |-> time, updated_at |-> time]

\* POST /category (an id is used up only by a row that is stored)
CreateCategory(b, body) ==
    LET q == Request("POST /category", b, Absent, body)
    IN  IF ~q.handled THEN Answer(q, Unauthorized)
        ELSE IF ~IsPresent(q.user) THEN Answer(q, InternalError)
        ELSE LET row == CategoryRow(nextCategoryId, body, q.user[1].id, now)
             IN  IF ~(body.type \in CategoryTypes /\ CategoryFkOk(auth_users, row))
                 THEN Answer(q, InternalError)
                 ELSE /\ nextCategoryId <= MaxCategories
                      /\ req' = q
                      /\ before' = Tables
                      /\ resp' = JsonFirst(201, <<row>>)
                      /\ category' = category \cup {row}
                      /\ nextCategoryId' = nextCategoryId + 1
                      /\ UNCHANGED <<auth_users, transaction, txSchema, nextUserId,
                                     nextTransactionId, now, issued, inflight>>

\* where({id, auth_user_id: req.user.id})
Matching(rows, id, userId) == {r \in rows : r.id = id /\ r.auth_user_id = userId}

\* PUT /category/:id: the response and the table after it
UpdateCategoryResult(cats, user, id, body, time) ==
    IF ~IsPresent(user) \/ body.type \notin CategoryTypes
    THEN [resp |-> InternalError, cats |-> cats]
    ELSE LET hit == Matching(cats, id, user[1].id)
             new == {[c EXCEPT !.name = body.name, !.type = body.type,
                               !.updated_at = time] : c \in hit}
         IN  [resp |-> IF new = {} THEN JsonFirst(200, <<>>)
                       ELSE JsonFirst(200, <<CHOOSE c \in new : TRUE>>),
              cats |-> (cats \ hit) \cup new]

UpdateCategory(b, id, body) ==
    LET q == Request("PUT /category/:id", b, Some(id), body)
    IN  IF ~q.handled THEN Answer(q, Unauthorized)
        ELSE LET res == UpdateCategoryResult(category, q.user, id, body, now)
             IN  /\ req' = q
                 /\ before' = Tables
                 /\ resp' = res.resp
                 /\ category' = res.cats
                 /\ UNCHANGED <<auth_users, transaction, txSchema, nextUserId,
                                nextCategoryId, nextTransactionId, now, issued, inflight>>

\* DELETE /category/:id: the response and the tables after it
DeleteCategoryResult(cats, txs, user, id) ==
    IF ~IsPresent(user) THEN [resp |-> InternalError, cats |-> cats, txs |-> txs]
    ELSE LET gone == Matching(cats, id, user[1].id)
         IN  [resp |-> Message("Category deleted successfully"),
              cats |-> cats \ gone,
              txs |-> CascadeCategoryDelete(txs, gone)]

DeleteCategory(b, id) ==
    LET q == Request("DELETE /category/:id", b, Some(id), [none |-> TRUE])
    IN  IF ~q.handled THEN Answer(q, Unauthorized)
        ELSE LET res == DeleteCategoryResult(category, transaction, q.user, id)
             IN  /\ req' = q
                 /\ before' = Tables
                 /\ resp' = res.resp
                 /\ category' = res.cats
                 /\ transaction' = res.txs
                 /\ UNCHANGED <<auth_users, txSchema, nextUserId, nextCategoryId,
                                nextTransactionId, now, issued, inflight>>

\* ------------------------------------------------ routes/transaction
\* the row POST /transaction inserts
TransactionRow(id, body, userId, time) ==
    [id |-> id, amount |-> body.amount, description |-> body.description,
     category_id |-> body.category_id, auth_user_id |-> userId,
     created_at |-> time, updated_at |-> time]

\* the columns PUT /transaction/:id sets
TransactionUpdateColumns == {"amount", "description", "category_id", "updated_at"}

\* whether the store takes the insert: the columns, then the foreign keys
InsertTransactionOk(schema, users, cats, row) ==
    /\ InsertColumnsOk(schema, DOMAIN row)
    /\ TransactionFkOk(users, cats, row)

\* POST /transaction (an id is used up only by a row that is stored)
CreateTransaction(b, body) ==
    LET q == Request("POST /transaction", b, Absent, body)
    IN  IF ~q.handled THEN Answer(q, Unauthorized)
        ELSE IF ~IsPresent(q.user) THEN Answer(q, InternalError)
        ELSE LET row == TransactionRow(nextTransactionId, body, q.user[1].id, now)
             IN  IF ~InsertTransactionOk(txSchema, auth_users, category, row)
                 THEN Answer(q, InternalError)
                 ELSE /\ nextTransactionId <= MaxTransactions
                      /\ req' = q
                      /\ before' = Tables
                      /\ resp' = JsonFirst(201, <<row>>)
                      /\ transaction' = transaction \cup {row}
                      /\ nextTransactionId' = nextTransactionId + 1
                      /\ UNCHANGED <<auth_users, category, txSchema, nextUserId,
                                     nextCategoryId, now, issued, inflight>>

\* GET /transaction
ListTransactionsResponses(schema, txs, user, query) ==
    IF ~IsPresent(user) THEN {InternalError}
    ELSE IF HasFilter(query) /\ "description" \notin TransactionColumns(schema)
    THEN {InternalError}
    ELSE LET mine == OwnedBy(txs, user[1].id)
             sel == IF HasFilter(query)
                    THEN {t \in mine : LikeMatch(LikePattern(query.filter[1]), t.description)}
                    ELSE mine
         IN  PagedResponses(sel, TransactionColumns(schema), query)

ListTransactions(b, query) ==
    LET q == Request("GET /transaction", b, Absent, query)
    IN  IF ~q.handled THEN Answer(q, Unauthorized)
        ELSE \E r \in ListTransactionsResponses(txSchema, transaction, q.user, query) :
                Answer(q, r)

\* GET /transaction/:id
GetTransactionResponse(txs, user, id) ==
    IF ~IsPresent(user) THEN InternalError
    ELSE LET found == Matching(txs, id, user[1].id)
         IN  IF found = {} THEN Failure(404, "Transaction not found")
             ELSE JsonFirst(200, <<CHOOSE t \in found : TRUE>>)

GetTransaction(b, id) ==
    LET q == Request("GET /transaction/:id", b, Some(id), [none |-> TRUE])
    IN  IF ~q.handled THEN Answer(q, Unauthorized)
        ELSE Answer(q, GetTransactionResponse(transaction, q.user, id))

\* PUT /transaction/:id: the response and the table after it
UpdateTransactionResult(schema, cats, txs, user, id, body, time) ==
    IF ~IsPresent(user) \/ ~WritesOk(schema, TransactionUpdateColumns)
    THEN [resp |-> InternalError, txs |-> txs]
    ELSE LET hit == Matching(txs, id, user[1].id)
             new == {[t EXCEPT !.amount = body.amount,
                               !.description = body.description,
                               !.category_id = body.category_id,
                               !.updated_at = time] : t \in hit}
         IN  IF \E t \in new : \A c \in cats : c.id # t.category_id
             THEN [resp |-> InternalError, txs |-> txs]
             ELSE [resp |-> IF new = {} THEN JsonFirst(200, <<>>)
                            ELSE JsonFirst(200, <<CHOOSE t \in new : TRUE>>),
                   txs |-> (txs \ hit) \cup new]

UpdateTransaction(b, id, body) ==
    LET q == Request("PUT /transaction/:id", b, Some(id), body)
    IN  IF ~q.handled THEN Answer(q, Unauthorized)
        ELSE LET res == UpdateTransactionResult(txSchema, category, transaction,
                                                q.user, id, body, now)
             IN  /\ req' = q
                 /\ before' = Tables
                 /\ resp' = res.resp
                 /\ transaction' = res.txs
                 /\ UNCHANGED <<auth_users, category, txSchema, nextUserId,
                                nextCategoryId, nextTransactionId, now, issued, inflight>>

\* DELETE /transaction/:id: the response and the table after it
DeleteTransactionResult(txs, user, id) ==
    IF ~IsPresent(user) THEN [resp |-> InternalError, txs |-> txs]
    ELSE [resp |-> Message("Transaction deleted successfully"),
          txs |-> txs \ Matching(txs, id, user[1].id)]

DeleteTransaction(b, id) ==
    LET q == Request("DELETE /transaction/:id", b, Some(id), [none |-> TRUE])
    IN  IF ~q.handled THEN Answer(q, Unauthorized)
        ELSE LET res == DeleteTransactionResult(transaction, q.user, id)
             IN  /\ req' = q
                 /\ before' = Tables
                 /\ resp' = res.resp
                 /\ transaction' = res.txs
                 /\ UNCHANGED <<auth_users, category, txSchema, nextUserId,
                                nextCategoryId, nextTransactionId, now, issued, inflight>>

\* ------------------------------------------------------ specifications
NoQuery ==
    [page |-> Absent, pageSize |-> Absent, filter |-> Absent, sortBy |-> Absent,
     order |-> Absent]

\* the requests of the specifications
SignupBodies == [name : UserNames, email : Emails, password : {"p1"}]
SigninBodies == [email : Emails, password : {"p1"}]
CategoryBodies == [name : {<<"a">>}, type : CategoryTypes]
TransactionBodies == [amount : {10}, description : {<<"a">>}, category_id : CategoryIds]

\* in the specifications about categories and transactions the first signup
\* asks for the first email and every later one for the second
NextSignupBodies ==
    {body \in SignupBodies :
        body.email = IF nextUserId + Len(inflight) = 1 THEN "a@x.com" ELSE "b@x.com"}
\* and a request carries no bearer or a valid one
DataBearers == {b \in Bearers : b.kind \in {"none", "valid"}}

Users ==
    \/ \E body \in NextSignupBodies : SignupCheck(body)
    \/ \E i \in 1 .. Len(inflight) : SignupInsert(i)
    \/ \E body \in SigninBodies : Signin(body)

\* Spec: the category and transaction routes, called by the users who signed up
Next ==
    \/ Users
    \/ \E b \in DataBearers : ListCategories(b, NoQuery)
    \/ \E b \in DataBearers, body \in CategoryBodies : CreateCategory(b, body)
    \/ \E b \in DataBearers, id \in CategoryIds, body \in CategoryBodies :
          UpdateCategory(b, id, body)
    \/ \E b \in DataBearers, id \in CategoryIds : DeleteCategory(b, id)
    \/ \E b \in DataBearers, body \in TransactionBodies : CreateTransaction(b, body)
    \/ \E b \in DataBearers : ListTransactions(b, NoQuery)
    \/ \E b \in DataBearers, id \in TransactionIds : GetTransaction(b, id)
    \/ \E b \in DataBearers, id \in TransactionIds, body \in TransactionBodies :
          UpdateTransaction(b, id, body)
    \/ \E b \in DataBearers, id \in TransactionIds : DeleteTransaction(b, id)

Spec == Init /\ [][Next]_vars

\* SpecUsers: the auth_users routes, with signups in flight, wrong passwords
\* and profile updates
UserSigninBodies == [email : Emails, password : Passwords]
UserUpdates ==
    {[name |-> Absent, email |-> Some(e), password |-> Absent] : e \in Emails}
      \cup {[name |-> Absent, email |-> Absent, password |-> Some("p2")]}

NextUsers ==
    \/ \E body \in SignupBodies : SignupCheck(body)
    \/ \E i \in 1 .. Len(inflight) : SignupInsert(i)
    \/ \E body \in UserSigninBodies : Signin(body)
    \/ \E b \in Bearers : ListUsers(b)
    \/ \E b \in Bearers, id \in UserIds : GetUser(b, id)
    \/ \E b \in Bearers, id \in UserIds, body \in UserUpdates : UpdateUser(b, id, body)
    \/ \E b \in Bearers, id \in UserIds : DeleteUser(b, id)

SpecUsers == Init /\ [][NextUsers]_vars

\* SpecGate: every route, each with one request body
GateUserUpdate == [name |-> Some("ann"), email |-> Absent, password |-> Absent]
GateCategoryBody == [name |-> <<"a">>, type |-> "income"]
GateTransactionBody == [amount |-> 10, description |-> <<"a">>, category_id |-> 1]

NextGate ==
    \/ Users
    \/ \E b \in Bearers : ListUsers(b)
    \/ \E b \in Bearers, id \in UserIds : GetUser(b, id)
    \/ \E b \in Bearers, id \in UserIds : UpdateUser(b, id, GateUserUpdate)
    \/ \E b \in Bearers, id \in UserIds : DeleteUser(b, id)
    \/ \E b \in Bearers : ListCategories(b, NoQuery)
    \/ \E b \in Bearers : CreateCategory(b, GateCategoryBody)
    \/ \E b \in Bearers, id \in CategoryIds : UpdateCategory(b, id, GateCategoryBody)
    \/ \E b \in Bearers, id \in CategoryIds : DeleteCategory(b, id)
    \/ \E b \in Bearers : CreateTransaction(b, GateTransactionBody)
    \/ \E b \in Bearers : ListTransactions(b, NoQuery)
    \/ \E b \in Bearers, id \in TransactionIds : GetTransaction(b, id)
    \/ \E b \in Bearers, id \in TransactionIds :
          UpdateTransaction(b, id, GateTransactionBody)
    \/ \E b \in Bearers, id \in TransactionIds : DeleteTransaction(b, id)

SpecGate == Init /\ [][NextGate]_vars

\* SpecCascade: creates and deletes of users, categories and transactions
NextCascade ==
    \/ Users
    \/ \E b \in DataBearers, id \in UserIds : DeleteUser(b, id)
    \/ \E b \in DataBearers, body \in CategoryBodies : CreateCategory(b, body)
    \/ \E b \in DataBearers, id \in CategoryIds : DeleteCategory(b, id)
    \/ \E b \in DataBearers, body \in TransactionBodies : CreateTransaction(b, body)
    \/ \E b \in DataBearers, id \in TransactionIds : DeleteTransaction(b, id)

SpecCascade == Init /\ [][NextCascade]_vars

\* SpecList: the list routes, read against the stores two users can have
\* built: up to MaxListRows categories, or one more than a default page of
\* them, each with one transaction of its owner described as the category is
\* named (none where the deployed table takes no insert of the handlers).
\* Rows are created two to a clock value.
ListTime(i) == (i - 1) \div 2
ListUsersRows ==
    {SignupRow(1, [name |-> "ann", email |-> "a@x.com", password |-> "p1"], 0),
     SignupRow(2, [name |-> "ann", email |-> "b@x.com", password |-> "p1"], 0)}
ListStores ==
    UNION {[n : {n}, owner : [1 .. n -> {u.id : u \in ListUsersRows}],
            name : [1 .. n -> CategoryNames]] : n \in 0 .. MaxListRows}
      \cup {[n |-> DefaultPageSize + 1,
             owner |-> [i \in 1 .. DefaultPageSize + 1 |-> 1],
             name |-> [i \in 1 .. DefaultPageSize + 1 |-> <<"a">>]]}

InitList ==
    /\ auth_users = ListUsersRows
    /\ issued = {[id |-> u.id, email |-> u.email] : u \in ListUsersRows}
    /\ txSchema \in TxSchemas
    /\ \E st \in ListStores :
          /\ category =
                {CategoryRow(i, [name |-> st.name[i], type |-> "income"], st.owner[i],
                             ListTime(i)) : i \in 1 .. st.n}
          /\ transaction =
                {TransactionRow(i, [amount |-> 10, description |-> st.name[i],
                                    category_id |-> i], st.owner[i], ListTime(i)) :
                   i \in IF InsertColumnsOk(txSchema,
                                DOMAIN TransactionRow(1, GateTransactionBody, 1, 0))
                         THEN 1 .. st.n ELSE {}}
          /\ nextCategoryId = st.n + 1
          /\ nextTransactionId = Cardinality(transaction) + 1
          /\ now = ListTime(st.n + 1)
    /\ nextUserId = Cardinality(ListUsersRows) + 1
    /\ inflight = <<>>
    /\ req = NoRequest
    /\ resp = Response(0, "none", <<>>, "")
    /\ before = Tables

ListQueries ==
    [page : {Absent, Some(<<"0">>), Some(<<"1">>), Some(<<"2">>), Some(<<"3">>)},
     pageSize : {Absent, Some(<<"0">>), Some(<<"1">>), Some(<<"2">>)},
     filter : {Absent, Some(<<"b">>)},
     sortBy : {Absent, Some("id"), Some("bogus")},
     order : {Absent, Some("desc")}]

\* one list request against each store: the routes only read
ListCategoriesOnce ==
    req = NoRequest /\ \E b \in DataBearers, query \in ListQueries : ListCategories(b, query)
ListTransactionsOnce ==
    req = NoRequest /\ \E b \in DataBearers, query \in ListQueries : ListTransactions(b, query)

NextList == ListCategoriesOnce \/ ListTransactionsOnce

SpecList == InitList /\ [][NextList]_vars

\* ------------------------------------------------------------- claims
\* the request handled last came through the gate with an identity
Authenticated == req.handled /\ IsPresent(req.user)
Caller == req.user[1].id
DataRoutes == ProtectedCategoryRoutes \cup ProtectedTransactionRoutes
ReturnedRows == {resp.rows[i] : i \in 1 .. Len(resp.rows)}

\* C1: ownership isolation.  A category or transaction request authenticated
\* as one user returns no row owned by another user, and leaves every other
\* user's categories and transactions exactly as it found them.
C1_OwnershipIsolation ==
    (req.route \in DataRoutes /\ Authenticated) =>
        /\ \A r \in ReturnedRows : r.auth_user_id = Caller
        /\ \A u \in UserIds \ {Caller} :
              /\ OwnedBy(category, u) = OwnedBy(before.cats, u)
              /\ OwnedBy(transaction, u) = OwnedBy(before.txs, u)

\* C3: a createTransaction whose category_id names no category of the caller
\* is rejected and stores nothing.
C3_CrossOwnerCategoryRejected ==
    (/\ req.route = "POST /transaction"
     /\ Authenticated
     /\ \A c \in OwnedBy(before.cats, Caller) : c.id # req.args.category_id)
        => (resp.status >= 400 /\ transaction = before.txs)

\* C4: an update of an id that matches no row of the caller answers not found
\* and changes nothing.
C4_UpdateOfNoRowIsNotFound ==
    /\ (/\ req.route = "PUT /category/:id"
        /\ Authenticated
        /\ Matching(before.cats, req.id[1], Caller) = {})
          => (resp.status = 404 /\ Tables = before)
    /\ (/\ req.route = "PUT /transaction/:id"
        /\ Authenticated
        /\ Matching(before.txs, req.id[1], Caller) = {})
          => (resp.status = 404 /\ Tables = before)

\* C5: a delete of an id that matches no row of the caller (never created,
\* another user's, or deleted before) answers not found.
C5_DeleteOfNoRowIsNotFound ==
    /\ (/\ req.route = "DELETE /category/:id"
        /\ Authenticated
        /\ Matching(before.cats, req.id[1], Caller) = {})
          => resp.status = 404
    /\ (/\ req.route = "DELETE /transaction/:id"
        /\ Authenticated
        /\ Matching(before.txs, req.id[1], Caller) = {})
          => resp.status = 404

\* C8: no two rows of auth_users share an email, and a signup whose email is
\* in use when it inserts answers 400 and creates no user.
C8_EmailUnique ==
    /\ \A u, v \in auth_users : u.email = v.email => u = v
    /\ (/\ req.route = "POST /auth_users/signup"
        /\ resp.kind # "pending"
        /\ EmailInUse(before.users, req.args.email))
          => (resp.status = 400 /\ auth_users = before.users)

UserIdRoutes == {"GET /auth_users/:id", "PUT /auth_users/:id", "DELETE /auth_users/:id"}

\* C9: on GET, PUT and DELETE /auth_users/:id an authenticated request for an
\* id that is not the token's answers 403, returns no row and leaves
\* auth_users as it was; what these routes return, change or delete is the
\* caller's own row.
C9_IdentityMatch ==
    (req.route \in UserIdRoutes /\ Authenticated) =>
        /\ req.id[1] # Caller =>
              (resp = Forbidden /\ ReturnedRows = {} /\ Tables = before)
        /\ \A r \in ReturnedRows : r.id = Caller
        /\ \A u \in before.users : u.id # Caller => u \in auth_users
        /\ \A u \in auth_users : u.id # Caller => u \in before.users

\* a foreign id that names an existing user was refused
C9_Witness ==
    /\ req.route = "PUT /auth_users/:id"
    /\ Authenticated
    /\ req.id[1] # Caller
    /\ \E u \in before.users : u.id = req.id[1]
    /\ resp.status = 403

\* C10: a signin that fails answers 401 {error: "Invalid email or password"}
\* and no token, and that is the answer the same request gets from the store
\* without the users of that email; a token is issued only for a user of that
\* email whose stored hash the password verifies against.
C10_SigninDoesNotRevealEmail ==
    /\ \A body \in UserSigninBodies :
          LET without == {u \in auth_users : u.email # body.email}
          IN  \A r \in SigninResponses(auth_users, body) :
                /\ r.status # 200 => r \in SigninResponses(without, body)
                /\ IsPresent(r.token) =>
                      \E u \in auth_users :
                          /\ u.email = body.email
                          /\ u.id = r.token[1].id
                          /\ u.password = BcryptHash(body.password)
    /\ (req.route = "POST /auth_users/signin" /\ resp.status # 200) =>
          (resp = Failure(401, "Invalid email or password") /\ ~IsPresent(resp.token))
    /\ (req.route = "POST /auth_users/signin" /\ resp.status = 200) =>
          \E u \in before.users :
              /\ u.email = req.args.email
              /\ u.password = BcryptHash(req.args.password)
              /\ resp.token = Some([id |-> u.id, email |-> u.email])

\* a wrong password for an email that exists was answered 401
C10_Witness ==
    /\ req.route = "POST /auth_users/signin"
    /\ EmailInUse(before.users, req.args.email)
    /\ resp.status = 401

\* C2: on every route but signup and signin, a request whose bearer is missing,
\* invalid or expired is answered 401, its handler does not run and the tables
\* stay as they were.
C2_UnauthenticatedIsRejected ==
    (req.route \notin PublicRoutes \cup {"none"} /\ req.bearer.kind # "valid") =>
        /\ resp = Unauthorized
        /\ ~req.handled
        /\ Tables = before

\* an expired token of the owner did not delete the owner's category
C2_Witness ==
    /\ req.route = "DELETE /category/:id"
    /\ req.bearer.kind = "expired"
    /\ Matching(category, req.id[1], req.bearer.claims[1].id) # {}
    /\ resp.status = 401

\* C7: every transaction references an existing category and an existing
\* user and every category an existing user; a delete of a category removes
\* exactly the transactions that reference it, and a delete of a user removes
\* that user's categories and transactions.
C7_ReferentialIntegrity ==
    /\ \A t \in transaction :
          /\ \E c \in category : c.id = t.category_id
          /\ \E u \in auth_users : u.id = t.auth_user_id
    /\ \A c \in category : \E u \in auth_users : u.id = c.auth_user_id
    /\ (req.route = "DELETE /category/:id" /\ Authenticated) =>
          LET gone == Matching(before.cats, req.id[1], Caller)
          IN  /\ category = before.cats \ gone
              /\ transaction = {t \in before.txs : \A c \in gone : t.category_id # c.id}
    /\ (req.route = "DELETE /auth_users/:id" /\ Authenticated /\ req.id[1] = Caller) =>
          /\ auth_users = {u \in before.users : u.id # Caller}
          /\ category = {c \in before.cats : c.auth_user_id # Caller}
          /\ \A t \in transaction : t.auth_user_id # Caller
          /\ transaction \subseteq before.txs

\* a category was deleted that a transaction referenced
C7_Witness ==
    /\ req.route = "DELETE /category/:id"
    /\ Authenticated
    /\ \E c \in Matching(before.cats, req.id[1], Caller) :
          \E t \in before.txs : t.category_id = c.id
    /\ resp.status = 200

\* the number a query parameter gives, absent and zero standing for dflt
GivenOr(x, dflt) ==
    IF ~IsPresent(x) THEN dflt
    ELSE IF ParseInt(x)[1] = 0 THEN dflt ELSE ParseInt(x)[1]
\* f occurs in s
Contains(s, f) == \E i \in 0 .. Len(s) - Len(f) : SubSeq(s, i + 1, i + Len(f)) = f
\* the rows of s at positions (page - 1) * size + 1 .. page * size
Positions(s, page, size) ==
    LET first == (page - 1) * size + 1
        last == IF page * size < Len(s) THEN page * size ELSE Len(s)
    IN  [k \in 1 .. (IF last < first THEN 0 ELSE last - first + 1) |-> s[first + k - 1]]
\* the columns the query sorts and filters by are columns of the table
QueryFitsTable ==
    IF req.route = "GET /category" THEN SortByOf(req.args) \in CategoryColumns
    ELSE /\ SortByOf(req.args) \in TransactionColumns(txSchema)
         /\ HasFilter(req.args) => "description" \in TransactionColumns(txSchema)

C11_PasswordStoreHoldsNoPlaintext ==
    \A u \in auth_users :
        /\ u.password.kind = "bcrypt"
        /\ BcryptCompare(u.password.text, u.password)

\* the columns of the table a list route reads
ListedColumns ==
    IF req.route = "GET /category" THEN CategoryColumns ELSE TransactionColumns(txSchema)

\* C12: for every list request the sort field and the direction the query is
\* made with are recognized values (a column of the table, asc or desc) or the
\* defaults created_at and asc: a sortBy that names no column never reaches
\* orderBy.
C12_SortIsValidated ==
    (req.route \in {"GET /category", "GET /transaction"} /\ Authenticated)
        => /\ SortByOf(req.args) \in ListedColumns
           /\ OrderOf(req.args) \in {"asc", "desc"}

\* C13: POST /transaction by an authenticated user, with an amount, a
\* description and the id of a category the user owns, answers 201 and stores
\* exactly one new transaction, owned by the caller and referencing that
\* category, which GET /transaction/:id then returns to the same user; the
\* row stored fits the columns and the not-null fields of table transaction.
C13_CreateTransactionSucceeds ==
    (/\ req.route = "POST /transaction"
     /\ Authenticated
     /\ \E c \in before.cats :
            c.id = req.args.category_id /\ c.auth_user_id = Caller)
        => /\ resp.status = 201
           /\ \E t \in transaction \ before.txs :
                 /\ transaction = before.txs \cup {t}
                 /\ t.auth_user_id = Caller
                 /\ t.category_id = req.args.category_id
                 /\ resp.rows = <<t>>
                 /\ GetTransactionResponse(transaction, req.user, t.id)
                        = JsonFirst(200, <<t>>)
                 /\ InsertColumnsOk(txSchema, DOMAIN t)

\* C14: owner consistency of the transaction-category link: whatever
\* POST /transaction and PUT /transaction/:id requests were served, the
\* category of every stored transaction belongs to the transaction's owner.
C14_TransactionCategoryOwner ==
    \A t \in transaction :
        \A c \in category :
            c.id = t.category_id => c.auth_user_id = t.auth_user_id

\* C15: no response of a user endpoint (signup, signin, list users, get,
\* update and delete user by id) carries a stored password: the user records
\* returned have the fields id, name, email and active, and no other.
C15_NoPasswordInResponses ==
    (req.route \in PublicRoutes \cup ProtectedUserRoutes)
        => \A r \in ReturnedRows :
              /\ "password" \notin DOMAIN r
              /\ DOMAIN r = {"id", "name", "email", "active"}

====
